---- MODULE Spec2Model ----
(***************************************************************************)
(* The /cra/query handler of src/main.py (process_cra_query) as a state    *)
(* machine.  Each request owns a frame of local variables; the module-     *)
(* level clients (prompt, embedding, llm, pc) are created at import time   *)
(* and never assigned afterwards, so they appear only as the collaborators *)
(* whose replies are the inputs of the actions.                            *)
(*                                                                         *)
(* Numbers.  A log-probability is modelled as an integer lp <= 0 standing  *)
(* for lp * ln 2, so that math.exp(lp * ln 2) = 1 / 2^(-lp) exactly.       *)
(* Floats are modelled as exact rationals in lowest terms ([num, den]);    *)
(* float rounding is not modelled.                                         *)
(*                                                                         *)
(* Strings.  Passage texts and the context are sequences of characters,    *)
(* so that "\n\n".join(...) is a real concatenation.  Queries, answers     *)
(* and error messages are atoms.                                           *)
(***************************************************************************)
EXTENDS Integers, Sequences, FiniteSets, TLC

\* ---------------------------------------------------------------- bounds

\* Requests in flight in the concurrent specification.
NumRequests == 2
\* Longest per-token log-probability sequence an LLM reply carries.
MaxTokens == 2
\* Log-probabilities range over 0, -1, ..., -MaxExp (units of ln 2).
MaxExp == 2

\* top_k of the index query.
TopK == 3

Requests == 1..NumRequests

\* ------------------------------------------------------------ data domains

Queries == {"q1", "q2"}
Vectors == {"v1", "v2"}
Answers == {"a1", "a2"}
\* Passage texts, as character sequences (the empty text included).
Passages == {<<>>, <<"a">>, <<"b">>}
\* "\n\n"
Separator == <<"\n", "\n">>

\* A match of the index reply: hit["metadata"]["text"], or a hit whose
\* metadata carries no "text" key.
Hits ==
  {[has_text |-> TRUE, text |-> p] : p \in Passages}
    \cup {[has_text |-> FALSE, text |-> <<>>]}

RECURSIVE SeqsUpTo(_, _)
SeqsUpTo(S, n) ==
  IF n = 0 THEN {<<>>}
  ELSE LET shorter == SeqsUpTo(S, n - 1)
       IN shorter \cup {Append(s, x) : s \in {t \in shorter : Len(t) = n - 1}, x \in S}

MatchLists == SeqsUpTo(Hits, TopK)

LogProbs == {-k : k \in 0..MaxExp}
Tokens == {[logprob |-> lp] : lp \in LogProbs}
TokenSeqs == SeqsUpTo(Tokens, MaxTokens)

\* response.response_metadata: the "logprobs" key is missing, or null, or
\* holds {"content": [...]}.
LogprobsFields ==
  {[kind |-> "missing", content |-> <<>>], [kind |-> "null", content |-> <<>>]}
    \cup {[kind |-> "present", content |-> ts] : ts \in TokenSeqs}

LlmResponses ==
  {[content |-> a, response_metadata |-> [logprobs |-> lf]] :
     a \in Answers, lf \in LogprobsFields}

\* ------------------------------------------------------- Python's None

NoneStr == "None"
NoneResults == [matches |-> <<>>]
NoneMessages == [question |-> NoneStr, context |-> <<>>]
NoneResponse ==
  [content |-> NoneStr,
   response_metadata |-> [logprobs |-> [kind |-> "missing", content |-> <<>>]]]
NoneFloat == [present |-> FALSE, num |-> 0, den |-> 1]

\* ------------------------------------------------------------ collaborators

\* A collaborator's reply to one call: a value, or an exception with str(e).
Returned(v) == [raised |-> FALSE, error |-> NoneStr, value |-> v]
Raised(e, v0) == [raised |-> TRUE, error |-> e, value |-> v0]

ListIndexesReplies == {Returned("names"), Raised("list_indexes failed", "names")}
IndexHandleReplies == {Returned("cra-index"), Raised("index handle failed", "cra-index")}
EmbedReplies == {Returned(v) : v \in Vectors} \cup {Raised("embedding failed", NoneStr)}
QueryReplies ==
  {Returned([matches |-> m]) : m \in MatchLists}
    \cup {Raised("index query failed", NoneResults)}
FormatReplies == {Returned("messages"), Raised("prompt formatting failed", "messages")}
InvokeReplies ==
  {Returned(resp) : resp \in LlmResponses} \cup {Raised("llm call failed", NoneResponse)}

\* Deterministic collaborators (one fixed reply per argument), for SpecConc.
EmbedMock(text) == IF text = "q1" THEN Returned("v1") ELSE Returned("v2")
QueryMock(vector) ==
  IF vector = "v1"
  THEN Returned([matches |-> <<[has_text |-> TRUE, text |-> <<"a">>],
                              [has_text |-> TRUE, text |-> <<"b">>]>>])
  ELSE Returned([matches |-> <<>>])
\* The replies of the LLM in SpecConc: an answer with log-probabilities, an
\* answer whose "logprobs" is null, an error.
InvokeRepliesConc ==
  {Returned([content |-> "a1",
             response_metadata |->
               [logprobs |-> [kind |-> "present",
                              content |-> <<[logprob |-> 0], [logprob |-> -1]>>]]]),
   Returned([content |-> "a2",
             response_metadata |-> [logprobs |-> [kind |-> "null", content |-> <<>>]]]),
   Raised("llm call failed", NoneResponse)}

\* ------------------------------------------------------------- arithmetic

RECURSIVE GCD(_, _)
GCD(a, b) == IF b = 0 THEN a ELSE GCD(b, a % b)

RECURSIVE Pow2(_)
Pow2(k) == IF k = 0 THEN 1 ELSE 2 * Pow2(k - 1)

\* A float, as the exact rational n/d in lowest terms (d > 0, n >= 0).
Float(n, d) ==
  LET g == GCD(n, d) IN [present |-> TRUE, num |-> n \div g, den |-> d \div g]

FloatAdd(x, y) == Float(x.num * y.den + y.num * x.den, x.den * y.den)
FloatMul(x, k) == Float(x.num * k, x.den)
FloatDiv(x, k) == Float(x.num, x.den * k)

\* Mutant of MathExp: the sign of the exponent is lost.
MathExpOfNegated(lp) == Float(Pow2(-lp), 1)

\* math.exp(t["logprob"]), the log-probability being lp * ln 2 with lp <= 0.
MathExp(lp) == Float(1, Pow2(-lp))

\* [math.exp(t["logprob"]) for t in tokens]
ProbsOf(tokens) == [i \in 1..Len(tokens) |-> MathExp(tokens[i].logprob)]

\* sum(probs): a left fold from 0.
RECURSIVE PySum(_)
PySum(probs) ==
  IF probs = <<>> THEN Float(0, 1)
  ELSE FloatAdd(PySum(SubSeq(probs, 1, Len(probs) - 1)), probs[Len(probs)])

\* avg_conf * 100
ConfidenceOf(avg_conf) == FloatMul(avg_conf, 100)

\* ---------------------------------------------------------------- strings

\* [hit["metadata"]["text"] for hit in results["matches"]]
TextsOf(matches) == [i \in 1..Len(matches) |-> matches[i].text]

\* sep.join(texts)
RECURSIVE PyJoin(_, _)
PyJoin(sep, texts) ==
  IF texts = <<>> THEN <<>>
  ELSE IF Len(texts) = 1 THEN texts[1]
  ELSE texts[1] \o sep \o PyJoin(sep, Tail(texts))

\* Mutant of ContextOf: the passages are joined in the reverse order.
ContextOfReversed(matches) ==
  PyJoin(Separator, [i \in 1..Len(matches) |-> matches[Len(matches) + 1 - i].text])

\* "\n\n".join([...]) of line 155
ContextOf(matches) == PyJoin(Separator, TextsOf(matches))

\* prompt.format_messages(question=..., context=...): the template is pulled
\* from the hub; its result is kept as the two values substituted into it.
FormatMessages(question, context) == [question |-> question, context |-> context]

\* f"Error processing query: {str(e)}"
DetailOf(e) == <<"Error processing query: ", e>>

\* --------------------------------------------------------------- the state

VARIABLES
  pc,        \* per request: the position of its handler invocation
  request,   \* per request: the CRARequest body
  frame,     \* per request: the local variables of process_cra_query
  calls,     \* per request: the calls made to the collaborators, in order
  outcome    \* per request: what the handler returned or raised

vars == <<pc, request, frame, calls, outcome>>

NoneFrame ==
  [query |-> NoneStr, query_vector |-> NoneStr, results |-> NoneResults,
   context |-> <<>>, messages |-> NoneMessages, response |-> NoneResponse,
   response_text |-> NoneStr, tokens |-> <<>>, probs |-> <<>>,
   avg_conf |-> NoneFloat]

NoOutcome ==
  [kind |-> "none", status_code |-> 0, response |-> NoneStr,
   confidence |-> NoneFloat, detail |-> <<>>, error |-> NoneStr]

\* CRAResponse(response=..., confidence=...), sent with status 200
CRAResponse(response_text, confidence) ==
  [kind |-> "response", status_code |-> 200, response |-> response_text,
   confidence |-> confidence, detail |-> <<>>, error |-> NoneStr]

\* HTTPException(status_code=500, detail=f"Error processing query: {str(e)}")
HTTPException(e) ==
  [kind |-> "http_exception", status_code |-> 500, response |-> NoneStr,
   confidence |-> NoneFloat, detail |-> DetailOf(e), error |-> e]

\* An exception that leaves the handler uncaught (raised before the try).
Unhandled(e) ==
  [kind |-> "unhandled", status_code |-> 0, response |-> NoneStr,
   confidence |-> NoneFloat, detail |-> <<>>, error |-> e]

Call(fn, arg, raised) == [fn |-> fn, arg |-> arg, raised |-> raised]

Init ==
  /\ pc = [r \in Requests |-> "Idle"]
  /\ request = [r \in Requests |-> [query |-> NoneStr]]
  /\ frame = [r \in Requests |-> NoneFrame]
  /\ calls = [r \in Requests |-> <<>>]
  /\ outcome = [r \in Requests |-> NoOutcome]

\* Mutant of StepAfter: the index query is skipped after the embedding.
StepAfterSkippingRetrieval(p) ==
  CASE p = "Received" -> "Listed"
    [] p = "Listed" -> "Handle"
    [] p = "Handle" -> "Retrieved"
    [] p = "Retrieved" -> "ContextJoined"
    [] p = "ContextJoined" -> "PromptBuilt"
    [] p = "PromptBuilt" -> "Generated"
    [] p = "Generated" -> "Extracted"
    [] p = "Extracted" -> "ScoreComputed"
    [] p = "ScoreComputed" -> "Responded"
    [] OTHER -> "Failed"

\* The position reached when the statement at position p completes.
StepAfter(p) ==
  CASE p = "Received" -> "Listed"
    [] p = "Listed" -> "Handle"
    [] p = "Handle" -> "Embedded"
    [] p = "Embedded" -> "Retrieved"
    [] p = "Retrieved" -> "ContextJoined"
    [] p = "ContextJoined" -> "PromptBuilt"
    [] p = "PromptBuilt" -> "Generated"
    [] p = "Generated" -> "Extracted"
    [] p = "Extracted" -> "ScoreComputed"
    [] p = "ScoreComputed" -> "Responded"

\* The except block (lines 191-197): an exception raised inside the try
\* becomes one HTTPException.  f is the frame at the raise.
Except(r, e, f) ==
  /\ pc' = [pc EXCEPT ![r] = "Failed"]
  /\ frame' = [frame EXCEPT ![r] = f]
  /\ outcome' = [outcome EXCEPT ![r] = HTTPException(e)]

\* An exception raised before the try (lines 119, 123) leaves the handler
\* uncaught.
Propagate(r, e) ==
  /\ pc' = [pc EXCEPT ![r] = "Failed"]
  /\ frame' = frame
  /\ outcome' = [outcome EXCEPT ![r] = Unhandled(e)]

\* The statement completed: the frame is updated and control moves on.
Proceed(r, f) ==
  /\ pc' = [pc EXCEPT ![r] = StepAfter(pc[r])]
  /\ frame' = [frame EXCEPT ![r] = f]
  /\ outcome' = outcome

Record(r, fn, arg, reply) ==
  calls' = [calls EXCEPT ![r] = Append(@, Call(fn, arg, reply.raised))]

\* The log of request r holds a call to fn that raised.
RaisedFrom(r, fn) ==
  \E i \in 1..Len(calls[r]) : calls[r][i].fn = fn /\ calls[r][i].raised

\* ------------------------------------------------------------- the handler

\* A POST /cra/query arrives with body {query: q}.
Receive(r, q) ==
  /\ pc[r] = "Idle"
  /\ pc' = [pc EXCEPT ![r] = "Received"]
  /\ request' = [request EXCEPT ![r] = [query |-> q]]
  /\ UNCHANGED <<frame, calls, outcome>>

\* logger.info(pc.list_indexes().names())
ListIndexes(r, reply) ==
  /\ pc[r] = "Received"
  /\ Record(r, "list_indexes", NoneStr, reply)
  /\ IF reply.raised THEN Propagate(r, reply.error) ELSE Proceed(r, frame[r])
  /\ UNCHANGED request

\* dense_index = pc.Index(index_name)
GetIndex(r, reply) ==
  /\ pc[r] = "Listed"
  /\ Record(r, "Index", "cra-index", reply)
  /\ IF reply.raised THEN Propagate(r, reply.error) ELSE Proceed(r, frame[r])
  /\ UNCHANGED request

\* Mutant of QueryOf: the query is read from a slot all requests share.
QueryOfShared(r) == request[1].query

\* query = request.query
QueryOf(r) == request[r].query

\* Mutant of EmbedQuery: a failed embedding call is tried once more.
EmbedQueryRetry(r, reply) ==
  /\ pc[r] = "Handle"
  /\ LET f == [frame[r] EXCEPT !.query = request[r].query]
     IN /\ Record(r, "embed_query", f.query, reply)
        /\ IF reply.raised /\ ~RaisedFrom(r, "embed_query")
           THEN pc' = pc /\ frame' = frame /\ outcome' = outcome
           ELSE IF reply.raised THEN Except(r, reply.error, f)
           ELSE Proceed(r, [f EXCEPT !.query_vector = reply.value])
  /\ UNCHANGED request

\* query_vector = embedding.embed_query(query)
EmbedQuery(r, reply) ==
  /\ pc[r] = "Handle"
  /\ LET f == [frame[r] EXCEPT !.query = QueryOf(r)]
     IN /\ Record(r, "embed_query", f.query, reply)
        /\ IF reply.raised THEN Except(r, reply.error, f)
           ELSE Proceed(r, [f EXCEPT !.query_vector = reply.value])
  /\ UNCHANGED request

\* Mutant of IndexQuery: a failed index query is taken for an empty reply.
IndexQuerySwallow(r, reply) ==
  /\ pc[r] = "Embedded"
  /\ Record(r, "query",
            [namespace |-> "__default__", top_k |-> TopK,
             vector |-> frame[r].query_vector, include_metadata |-> TRUE],
            reply)
  /\ Proceed(r, [frame[r] EXCEPT !.results = reply.value])
  /\ UNCHANGED request

\* results = dense_index.query(namespace=..., top_k=3, vector=query_vector,
\*                             include_metadata=True)
IndexQuery(r, reply) ==
  /\ pc[r] = "Embedded"
  /\ Record(r, "query",
            [namespace |-> "__default__", top_k |-> TopK,
             vector |-> frame[r].query_vector, include_metadata |-> TRUE],
            reply)
  /\ IF reply.raised THEN Except(r, reply.error, frame[r])
     ELSE Proceed(r, [frame[r] EXCEPT !.results = reply.value])
  /\ UNCHANGED request

\* Mutant of JoinContext: an empty match list is rejected.
JoinContextStrict(r) ==
  /\ pc[r] = "Retrieved"
  /\ LET matches == frame[r].results.matches
     IN IF matches = <<>> \/ \E i \in 1..Len(matches) : ~matches[i].has_text
        THEN Except(r, "'text'", frame[r])
        ELSE Proceed(r, [frame[r] EXCEPT !.context = ContextOf(matches)])
  /\ UNCHANGED <<request, calls>>

\* context = "\n\n".join([hit["metadata"]["text"] for hit in results["matches"]])
JoinContext(r) ==
  /\ pc[r] = "Retrieved"
  /\ LET matches == frame[r].results.matches
     IN IF \E i \in 1..Len(matches) : ~matches[i].has_text
        THEN Except(r, "'text'", frame[r])
        ELSE Proceed(r, [frame[r] EXCEPT !.context = ContextOf(matches)])
  /\ UNCHANGED <<request, calls>>

\* messages = prompt.format_messages(question=query, context=context)
BuildPrompt(r, reply) ==
  /\ pc[r] = "ContextJoined"
  /\ Record(r, "format_messages",
            [question |-> frame[r].query, context |-> frame[r].context], reply)
  /\ IF reply.raised THEN Except(r, reply.error, frame[r])
     ELSE Proceed(r, [frame[r] EXCEPT
                        !.messages = FormatMessages(frame[r].query, frame[r].context)])
  /\ UNCHANGED request

\* response = llm.invoke(messages, logprobs=True)
\* response_text = response.content
Invoke(r, reply) ==
  /\ pc[r] = "PromptBuilt"
  /\ Record(r, "invoke", [messages |-> frame[r].messages, logprobs |-> TRUE], reply)
  /\ IF reply.raised THEN Except(r, reply.error, frame[r])
     ELSE Proceed(r, [frame[r] EXCEPT !.response = reply.value,
                                      !.response_text = reply.value.content])
  /\ UNCHANGED request

\* tokens = response.response_metadata["logprobs"]["content"]
\* probs = [math.exp(t["logprob"]) for t in tokens]
ExtractLogprobs(r) ==
  /\ pc[r] = "Generated"
  /\ LET logprobs == frame[r].response.response_metadata.logprobs
     IN CASE logprobs.kind = "missing" -> Except(r, "'logprobs'", frame[r])
          [] logprobs.kind = "null" ->
               Except(r, "'NoneType' object is not subscriptable", frame[r])
          [] OTHER ->
               Proceed(r, [frame[r] EXCEPT !.tokens = logprobs.content,
                                           !.probs = ProbsOf(logprobs.content)])
  /\ UNCHANGED <<request, calls>>

\* avg_conf = sum(probs) / len(probs)
ComputeConfidence(r) ==
  /\ pc[r] = "Extracted"
  /\ LET probs == frame[r].probs
     IN IF Len(probs) = 0
        THEN Except(r, "division by zero", frame[r])
        ELSE Proceed(r, [frame[r] EXCEPT
                           !.avg_conf = FloatDiv(PySum(probs), Len(probs))])
  /\ UNCHANGED <<request, calls>>

\* return CRAResponse(response=response_text, confidence=avg_conf * 100)
Respond(r) ==
  /\ pc[r] = "ScoreComputed"
  /\ pc' = [pc EXCEPT ![r] = StepAfter(pc[r])]
  /\ outcome' = [outcome EXCEPT ![r] =
                   CRAResponse(frame[r].response_text, ConfidenceOf(frame[r].avg_conf))]
  /\ UNCHANGED <<request, frame, calls>>

\* ------------------------------------------------------- specifications

\* One request, the collaborators replying in every way they can.
Next ==
  \/ \E q \in Queries : Receive(1, q)
  \/ \E reply \in ListIndexesReplies : ListIndexes(1, reply)
  \/ \E reply \in IndexHandleReplies : GetIndex(1, reply)
  \/ \E reply \in EmbedReplies : EmbedQuery(1, reply)
  \/ \E reply \in QueryReplies : IndexQuery(1, reply)
  \/ JoinContext(1)
  \/ \E reply \in FormatReplies : BuildPrompt(1, reply)
  \/ \E reply \in InvokeReplies : Invoke(1, reply)
  \/ ExtractLogprobs(1)
  \/ ComputeConfidence(1)
  \/ Respond(1)

Spec == Init /\ [][Next]_vars

\* NumRequests requests in flight at once, their statements interleaved in
\* every order.  (The handler holds no await, so a single event loop runs one
\* invocation to its end before the next; every interleaving of statements
\* covers that schedule and those of handlers run in parallel.)  The
\* embedding and the index reply deterministically, the LLM in any of
\* InvokeRepliesConc.
NextConc ==
  \E r \in Requests :
    \/ \E q \in Queries : Receive(r, q)
    \/ ListIndexes(r, Returned("names"))
    \/ GetIndex(r, Returned("cra-index"))
    \/ EmbedQuery(r, EmbedMock(QueryOf(r)))
    \/ IndexQuery(r, QueryMock(frame[r].query_vector))
    \/ JoinContext(r)
    \/ BuildPrompt(r, Returned("messages"))
    \/ \E reply \in InvokeRepliesConc : Invoke(r, reply)
    \/ ExtractLogprobs(r)
    \/ ComputeConfidence(r)
    \/ Respond(r)

SpecConc == Init /\ [][NextConc]_vars

\* ------------------------------------------------------------- properties

\* The pipeline state (spec section 4.3) a handler position belongs to.
StageOf(p) ==
  CASE p = "Idle" -> "NotReceived"
    [] p \in {"Received", "Listed", "Handle"} -> "Received"
    [] p \in {"Retrieved", "ContextJoined"} -> "Retrieved"
    [] p \in {"Generated", "Extracted"} -> "Generated"
    [] OTHER -> p

StageOrder ==
  <<"Received", "Embedded", "Retrieved", "PromptBuilt", "Generated",
    "ScoreComputed", "Responded">>

CallOrder ==
  <<"list_indexes", "Index", "embed_query", "query", "format_messages", "invoke">>

ExternalCalls == {"embed_query", "query", "invoke"}

Called(r, fn) == \E i \in 1..Len(calls[r]) : calls[r][i].fn = fn
ReturnedFrom(r, fn) ==
  \E i \in 1..Len(calls[r]) : calls[r][i].fn = fn /\ ~calls[r][i].raised
CountOf(r, fn) == Cardinality({i \in 1..Len(calls[r]) : calls[r][i].fn = fn})
\* Every call to fn before position i of the log returned.
ReturnedBefore(r, fn, i) ==
  \E j \in 1..(i - 1) : calls[r][j].fn = fn /\ ~calls[r][j].raised

\* C1: a request moves Received -> Embedded -> Retrieved -> PromptBuilt ->
\* Generated -> ScoreComputed -> Responded one step at a time, or from a step
\* before Responded to Failed; Responded and Failed are final; the index
\* query is issued only after the embedding call returned, the LLM call only
\* after the index query returned and the prompt was built, and the
\* confidence is computed only after the LLM call returned.
C1_StageStep ==
  \A r \in Requests :
    LET s == StageOf(pc[r])
        t == StageOf(pc'[r])
    IN s # t =>
         \/ s = "NotReceived" /\ t = "Received"
         \/ t = "Failed" /\ s \in {StageOrder[i] : i \in 1..6}
         \/ \E i \in 1..6 : s = StageOrder[i] /\ t = StageOrder[i + 1]

C1_CallsInOrder ==
  \A r \in Requests :
    /\ \A i \in 1..Len(calls[r]) :
         /\ calls[r][i].fn = "query" => ReturnedBefore(r, "embed_query", i)
         /\ calls[r][i].fn = "invoke" =>
              /\ ReturnedBefore(r, "query", i)
              /\ ReturnedBefore(r, "format_messages", i)
              /\ StageOf(pc[r]) \in {"PromptBuilt", "Generated", "ScoreComputed",
                                     "Responded", "Failed"}
    /\ StageOf(pc[r]) \in {"ScoreComputed", "Responded"} => ReturnedFrom(r, "invoke")
    /\ StageOf(pc[r]) = "Embedded" => ReturnedFrom(r, "embed_query")
    /\ StageOf(pc[r]) = "Retrieved" => ReturnedFrom(r, "query")
    /\ StageOf(pc[r]) = "PromptBuilt" => ReturnedFrom(r, "format_messages")

C1_StrictOrder == [][C1_StageStep]_vars /\ []C1_CallsInOrder

\* C1 witness: a request went through every step and answered.
C1_Witness ==
  /\ pc[1] = "Responded"
  /\ outcome[1].kind = "response"
  /\ Len(calls[1]) = Len(CallOrder)

\* C2: when the index query call raises, the request ends with an error and
\* the LLM client is never invoked for it.
C2_NoLlmAfterRetrievalFailure ==
  \A r \in Requests :
    RaisedFrom(r, "query") =>
      /\ pc[r] = "Failed"
      /\ outcome[r].kind = "http_exception"
      /\ outcome[r].status_code = 500
      /\ CountOf(r, "invoke") = 0

\* C2 witness: the index query raised.
C2_Witness == RaisedFrom(1, "query") /\ pc[1] = "Failed"

\* C3 (as claimed): a failure of any call the handler makes ends the request
\* with one status-500 error whose detail contains the cause, and neither an
\* answer nor a confidence.
C3_AnyFailureIsHttp500 ==
  \A r \in Requests :
    (pc[r] = "Failed" \/ \E fn \in {CallOrder[i] : i \in 1..6} : RaisedFrom(r, fn)) =>
      /\ pc[r] = "Failed"
      /\ outcome[r].kind = "http_exception"
      /\ outcome[r].status_code = 500
      /\ Len(outcome[r].detail) = 2
      /\ outcome[r].detail[2] = outcome[r].error
      /\ outcome[r].error # NoneStr
      /\ outcome[r].response = NoneStr
      /\ ~outcome[r].confidence.present

\* The LLM call of request r returned a response whose log-probability field
\* is of the given kinds.
LlmReturnedLogprobs(r, kinds) ==
  /\ ReturnedFrom(r, "invoke")
  /\ frame[r].response.response_metadata.logprobs.kind \in kinds

\* C4 (as claimed): an LLM response without log-probability metadata still
\* ends in Responded, status 200, the generated text, confidence null.
C4_MissingLogprobsStillResponds ==
  \A r \in Requests :
    LlmReturnedLogprobs(r, {"missing", "null"}) =>
      /\ pc[r] # "Failed"
      /\ pc[r] = "Responded" =>
           /\ outcome[r].status_code = 200
           /\ outcome[r].response = frame[r].response.content
           /\ ~outcome[r].confidence.present

\* C5 (as claimed): an empty sequence of per-token log-probabilities yields a
\* null confidence; no division by zero, no failed request.
C5_EmptyLogprobsNullConfidence ==
  \A r \in Requests :
    (/\ LlmReturnedLogprobs(r, {"present"})
     /\ frame[r].response.response_metadata.logprobs.content = <<>>) =>
      /\ outcome[r].error # "division by zero"
      /\ pc[r] # "Failed"
      /\ pc[r] = "Responded" => ~outcome[r].confidence.present

\* The index query of request r returned no match.
EmptyMatchList(r) ==
  /\ ReturnedFrom(r, "query")
  /\ frame[r].results.matches = <<>>

\* C6: with an empty match list the request fails neither at retrieval nor at
\* building the context: the context is the empty string, the prompt is
\* built from the question and the empty context, and the LLM is invoked
\* with those messages and log-probabilities requested.
C6_EmptyMatchesProceed ==
  \A r \in Requests :
    (EmptyMatchList(r) /\ pc[r] # "Retrieved") =>
      /\ frame[r].context = <<>>
      /\ pc[r] # "ContextJoined" => Called(r, "format_messages")
      /\ \A i \in 1..Len(calls[r]) :
           /\ calls[r][i].fn = "format_messages" =>
                calls[r][i].arg = [question |-> request[r].query, context |-> <<>>]
           /\ calls[r][i].fn = "invoke" =>
                calls[r][i].arg =
                  [messages |-> [question |-> request[r].query, context |-> <<>>],
                   logprobs |-> TRUE]
      /\ (ReturnedFrom(r, "format_messages") /\ pc[r] # "PromptBuilt") =>
           Called(r, "invoke")

\* C6 witness: a request with no match answered.
C6_Witness == EmptyMatchList(1) /\ pc[1] = "Responded"

\* C7: each collaborator is called at most once and in the fixed order; a
\* request that answers made every call exactly once; a call that raised is
\* the request's last call.
C7_NoRetries ==
  \A r \in Requests :
    /\ Len(calls[r]) <= Len(CallOrder)
    /\ \A i \in 1..Len(calls[r]) : calls[r][i].fn = CallOrder[i]
    /\ \A fn \in ExternalCalls : CountOf(r, fn) <= 1
    /\ pc[r] = "Responded" =>
         \A fn \in ExternalCalls : CountOf(r, fn) = 1 /\ ~RaisedFrom(r, fn)
    /\ \A i \in 1..Len(calls[r]) :
         calls[r][i].raised => (i = Len(calls[r]) /\ pc[r] = "Failed")

\* C7 witness: the embedding call raised and the request failed.
C7_Witness == RaisedFrom(1, "embed_query") /\ pc[1] = "Failed"

\* 2^MaxExp times the sum of exp(logprob) over the tokens, an integer.
RECURSIVE ScaledProbSum(_)
ScaledProbSum(tokens) ==
  IF tokens = <<>> THEN 0
  ELSE Pow2(MaxExp + Head(tokens).logprob) + ScaledProbSum(Tail(tokens))

\* C8: a confidence that is present lies in [0, 100] and is 100 times the
\* arithmetic mean of exp(logprob) over the tokens the LLM returned.
C8_ConfidenceRange ==
  \A r \in Requests :
    outcome[r].confidence.present =>
      LET c == outcome[r].confidence
          tokens == frame[r].response.response_metadata.logprobs.content
          n == Len(tokens)
      IN /\ c.den > 0
         /\ 0 <= c.num
         /\ c.num <= 100 * c.den
         /\ n > 0
         /\ c.num * n * Pow2(MaxExp) = 100 * ScaledProbSum(tokens) * c.den

\* C8 witness: a confidence strictly between 0 and 100 over two tokens.
C8_Witness ==
  /\ outcome[1].confidence.present
  /\ outcome[1].confidence.num < 100 * outcome[1].confidence.den
  /\ Len(frame[1].tokens) = 2
  /\ frame[1].tokens[1] # frame[1].tokens[2]

\* The offset in the context at which passage i starts.
RECURSIVE OffsetOf(_, _)
OffsetOf(matches, i) ==
  IF i = 1 THEN 0
  ELSE OffsetOf(matches, i - 1) + Len(matches[i - 1].text) + Len(Separator)

\* ctx holds the passage texts of matches in their order, a double newline
\* between neighbours, and nothing else.
InRankedOrder(ctx, matches) ==
  LET n == Len(matches)
  IN IF n = 0 THEN ctx = <<>>
     ELSE /\ Len(ctx) = OffsetOf(matches, n) + Len(matches[n].text)
          /\ \A i \in 1..n :
               LET from == OffsetOf(matches, i)
                   upto == from + Len(matches[i].text)
               IN /\ SubSeq(ctx, from + 1, upto) = matches[i].text
                  /\ i < n => SubSeq(ctx, upto + 1, upto + 2) = <<"\n", "\n">>

\* C9: the context passed to the prompt is the passage texts in the order
\* the index returned them, joined by a double newline; the question of the
\* prompt and the text sent to the embedding call are the caller's query.
C9_ContextInOrder ==
  \A r \in Requests :
    /\ \A i \in 1..Len(calls[r]) :
         /\ calls[r][i].fn = "embed_query" => calls[r][i].arg = request[r].query
         /\ calls[r][i].fn = "format_messages" =>
              /\ calls[r][i].arg.question = request[r].query
              /\ InRankedOrder(calls[r][i].arg.context, frame[r].results.matches)
    /\ ReturnedFrom(r, "format_messages") =>
         /\ frame[r].messages.question = request[r].query
         /\ InRankedOrder(frame[r].messages.context, frame[r].results.matches)

\* C9 witness: a prompt built from three matches, two of them different.
C9_Witness ==
  /\ ReturnedFrom(1, "format_messages")
  /\ Len(frame[1].results.matches) = 3
  /\ frame[1].results.matches[1].text = <<"b">>
  /\ frame[1].results.matches[2].text = <<"a">>

\* What the LLM replied to request r, if it was called.
LlmReplyOf(r) ==
  [called |-> Called(r, "invoke"), raised |-> RaisedFrom(r, "invoke"),
   response |-> frame[r].response]

\* C10: requests in flight together share nothing: under every interleaving,
\* two requests with the same query to which the LLM replied the same (the
\* embedding and the index being deterministic) hold, at the same position,
\* the same locals, made the same calls with the same arguments and have the
\* same outcome, whatever other requests did before or in between.
C10_NoSharedState ==
  \A r1, r2 \in Requests :
    (/\ request[r1] = request[r2]
     /\ pc[r1] = pc[r2]
     /\ LlmReplyOf(r1) = LlmReplyOf(r2)) =>
      /\ frame[r1] = frame[r2]
      /\ calls[r1] = calls[r2]
      /\ outcome[r1] = outcome[r2]

\* C10 witness: two requests with the same query and the same LLM reply both
\* answered.
C10_Witness ==
  /\ pc[1] = "Responded"
  /\ pc[2] = "Responded"
  /\ request[1] = request[2]
  /\ outcome[1].kind = "response"
  /\ outcome[2] = outcome[1]

====
